---- MODULE Spec2Model ----
(***************************************************************************)
(* A model of one GameRoom Durable Object (src/src/room.ts) with its       *)
(* per-connection RateLimiter (src/src/rate-limit.ts), the codec boundary  *)
(* (src/src/codec.ts) and the protocol helpers (src/src/protocol.ts).      *)
(*                                                                         *)
(* Each handler of the room (constructor, fetch, webSocketMessage,         *)
(* webSocketClose, webSocketError) is one action: a Durable Object runs    *)
(* one handler at a time and none of them awaits, so a handler is atomic.  *)
(*                                                                         *)
(* The host (the Workers runtime) is modelled by `sockets`, the state of   *)
(* every server-side WebSocket handle, and `attachment`, the value each    *)
(* handle serialized.  state.getWebSockets() is the handles accepted and   *)
(* for which no close or error callback was delivered yet.  Handles are    *)
(* fresh objects (new WebSocketPair()), named 1, 2, ... in the order they  *)
(* are created.  crypto.randomUUID() returns an identifier it has not      *)
(* returned before.  Date.now() is the clock `now`, which does not advance *)
(* inside a handler and never goes back.                                   *)
(*                                                                         *)
(* `last` records the handler that ran last with its inputs, `out` the     *)
(* ws.send and ws.close calls it made, in order, and `response` the HTTP   *)
(* status it answered with (0 for a handler that answers nothing).         *)
(*                                                                         *)
(* `failing` is the handles on which ws.send throws.  It stays empty in    *)
(* Spec; SpecSendFail lets the sends of a handle start to throw.           *)
(*                                                                         *)
(* `clientPeers` is, for every handle, the peer list the client at the     *)
(* other end keeps from the frames it received: the peers of its welcome,  *)
(* plus every peer_joined, minus every peer_left.  A send that threw       *)
(* delivers nothing; the list of a client whose handle is gone is dropped. *)
(***************************************************************************)
EXTENDS Integers, Sequences, FiniteSets, TLC

VARIABLES env, connections, wsToPlayer, sockets, attachment, issued, now,
          failing, clientPeers, last, out, response,
          limiter, rlNow, rlCalls

vars == <<env, connections, wsToPlayer, sockets, attachment, issued, now,
          failing, clientPeers, last, out, response, limiter, rlNow, rlCalls>>

roomVars == <<env, connections, wsToPlayer, sockets, attachment, issued, now,
              failing, clientPeers, last, out, response>>

rlVars == <<limiter, rlNow, rlCalls>>

---------------------------------------------------------------------------
(* Bounds of the model *)

\* server-side WebSocket handles ever created in one behaviour
MaxHandles == 3
\* times the clock advances in one behaviour of the room
MaxTicks == 1
\* RateLimiter.allow calls in one behaviour of the limiter alone
MaxCalls == 5
\* last instant of a behaviour of the limiter alone
MaxRlTime == 1301

---------------------------------------------------------------------------
(* protocol.ts *)

PROTOCOL_VERSION == 1

RATE_LIMITED == "RATE_LIMITED"
ROOM_FULL == "ROOM_FULL"
INVALID_MESSAGE == "INVALID_MESSAGE"
BAD_PROTOCOL == "BAD_PROTOCOL"

\* JavaScript values of an object's fields
Undefined == [t |-> "undefined"]
Num(n) == [t |-> "number", n |-> n]
Str(s) == [t |-> "string", s |-> s]

\* decoded values: null, primitives, arrays, and objects with the fields
\* the room reads (type, protocolVersion, nonce) and one it does not (x)
Null == [kind |-> "null"]
NumberValue == [kind |-> "number", n |-> 42]
ArrayValue == [kind |-> "array", items |-> <<1, 2>>]
Obj(type, protocolVersion, nonce, x) ==
    [kind |-> "object", type |-> type, protocolVersion |-> protocolVersion,
     nonce |-> nonce, x |-> x]

\* typeof value === "object" && value !== null
isObject(value) == value.kind \in {"object", "array"}

IsArray(value) == value.kind = "array"

---------------------------------------------------------------------------
(* codec.ts *)

\* A received frame is an ArrayBuffer or a string; `parses` says whether
\* its bytes are well-formed MessagePack (resp. its text well-formed JSON)
\* and `value` is what they denote.
Frame(format, parses, value) ==
    [format |-> format, parses |-> parses, value |-> value]

decodeMessage(data) ==
    IF data.format = "ArrayBuffer"
    THEN IF data.parses THEN data.value ELSE Null          \* decode throws
    ELSE IF data.format = "string"
         THEN IF data.parses THEN data.value ELSE Null     \* JSON.parse throws
         ELSE Null

\* encode(message): what is sent is the message itself
encodeMessage(message) == message

Move == Obj(Str("move"), Undefined, Undefined, Num(1))
Hello(v) == Obj(Str("hello"), v, Undefined, Undefined)
Ping(n) == Obj(Str("ping"), Undefined, n, Undefined)

Frames ==
    { Frame("ArrayBuffer", TRUE, Move),
      Frame("ArrayBuffer", TRUE, Hello(Num(PROTOCOL_VERSION))),
      Frame("ArrayBuffer", TRUE, Hello(Num(PROTOCOL_VERSION + 1))),
      Frame("ArrayBuffer", TRUE, Hello(Undefined)),
      Frame("string", TRUE, Hello(Str("2"))),
      Frame("ArrayBuffer", TRUE, Ping(Str("abc"))),
      Frame("string", TRUE, Ping(Num(7))),
      Frame("ArrayBuffer", TRUE, ArrayValue),
      Frame("string", TRUE, NumberValue),
      Frame("ArrayBuffer", FALSE, Null),
      Frame("string", FALSE, Null) }

---------------------------------------------------------------------------
(* rate-limit.ts *)

windowMs == 1000

Max(a, b) == IF a >= b THEN a ELSE b

\* new RateLimiter(maxMessagesPerSecond)
NewRateLimiter(maxMessagesPerSecond) ==
    [timestamps |-> <<>>, maxMessages |-> Max(1, maxMessagesPerSecond)]

\* the eviction with an if for the while: at most one timestamp goes
EvictOnce(timestamps, cutoff) ==
    IF Len(timestamps) > 0 /\ Head(timestamps) < cutoff
    THEN Tail(timestamps)
    ELSE timestamps

\* while (timestamps.length > 0 && timestamps[0] < cutoff) timestamps.shift()
RECURSIVE Evict(_, _)
Evict(timestamps, cutoff) ==
    IF Len(timestamps) > 0 /\ Head(timestamps) < cutoff
    THEN Evict(Tail(timestamps), cutoff)
    ELSE timestamps

\* allow with the capacity test off by one: > for >=
allowOneTooMany(rl, t) ==
    LET kept == Evict(rl.timestamps, t - windowMs)
    IN  IF Len(kept) > rl.maxMessages
        THEN [ok |-> FALSE, rl |-> [rl EXCEPT !.timestamps = kept]]
        ELSE [ok |-> TRUE, rl |-> [rl EXCEPT !.timestamps = Append(kept, t)]]

\* allow(now): the value returned and the limiter afterwards
allow(rl, t) ==
    LET kept == Evict(rl.timestamps, t - windowMs)
    IN  IF Len(kept) >= rl.maxMessages
        THEN [ok |-> FALSE, rl |-> [rl EXCEPT !.timestamps = kept]]
        ELSE [ok |-> TRUE, rl |-> [rl EXCEPT !.timestamps = Append(kept, t)]]

---------------------------------------------------------------------------
(* room.ts: configuration *)

Sockets == 1 .. MaxHandles

\* the values crypto.randomUUID() can return
PlayerIds == {100 + n : n \in 1 .. MaxHandles}

\* Map.get of an absent key, and a null attachment
NoPlayer == 0

NoHeader == "<absent>"

\* a header value that is neither null nor the empty string
Truthy(header) == header # NoHeader /\ header # ""

Envs ==
    [MAX_MESSAGES_PER_SECOND : {0, 2}, MAX_PLAYERS_PER_ROOM : {0, 2, 3}]

\* (env.ALLOWED_ORIGINS ?? "http://localhost:3000").split(",")...
allowedOrigins == {"http://localhost:3000"}

maxMessagesPerSecond == Max(1, env.MAX_MESSAGES_PER_SECOND)

maxPlayersPerRoom == Max(1, env.MAX_PLAYERS_PER_ROOM)

Origins == {NoHeader, "", "http://localhost:3000", "http://evil.example"}

Upgrades == {NoHeader, "WebSocket"}

toLowerCase(s) == IF s = "WebSocket" THEN "websocket" ELSE s

---------------------------------------------------------------------------
(* room.ts: the two maps.  A Map keeps its keys in insertion order, so     *)
(* `connections` is the sequence of its entries; `wsToPlayer` is never     *)
(* iterated and is the function of its lookups.                            *)

NoConn == [playerId |-> NoPlayer]

IndexOf(conns, playerId) ==
    LET hits == {i \in 1 .. Len(conns) : conns[i].playerId = playerId}
    IN  IF hits = {} THEN 0 ELSE CHOOSE i \in hits : TRUE

\* connections.get(playerId)
MapGet(conns, playerId) ==
    IF IndexOf(conns, playerId) = 0 THEN NoConn
    ELSE conns[IndexOf(conns, playerId)]

\* connections.set(playerId, conn)
MapSet(conns, playerId, conn) ==
    IF IndexOf(conns, playerId) = 0 THEN Append(conns, conn)
    ELSE [conns EXCEPT ![IndexOf(conns, playerId)] = conn]

\* connections.delete(playerId)
MapDelete(conns, playerId) ==
    SelectSeq(conns, LAMBDA c : c.playerId # playerId)

Keys(conns) == {conns[i].playerId : i \in 1 .. Len(conns)}

NewConn(playerId, ws) ==
    [playerId |-> playerId, webSocket |-> ws,
     rateLimiter |-> NewRateLimiter(maxMessagesPerSecond)]

---------------------------------------------------------------------------
(* room.ts: messages and sends *)

\* ws.send(encodeMessage(message)) is called; `threw` tells whether it threw
SendEv(ws, message) ==
    [ev |-> "send", to |-> ws, msg |-> encodeMessage(message), threw |-> ws \in failing]

\* an exception leaves the handler
RaiseEv == [ev |-> "raise"]

CloseEv(ws, code, reason) == [ev |-> "close", to |-> ws, code |-> code, reason |-> reason]

\* send(ws, message): try { ws.send(...) } catch { }, the call is made and
\* an exception it throws is dropped
send(ws, message) == <<SendEv(ws, message)>>

error(code, message) == [type |-> "error", code |-> code, message |-> message]

Welcome(playerId, peers) ==
    [type |-> "welcome", protocolVersion |-> PROTOCOL_VERSION,
     playerId |-> playerId, peers |-> peers]

PeerJoined(playerId) == [type |-> "peer_joined", peerId |-> playerId]

PeerLeft(playerId) == [type |-> "peer_left", peerId |-> playerId]

Relay(playerId, decoded) == [type |-> "relay", from |-> playerId, data |-> decoded]

\* a pong that does not echo the nonce
PongWithoutNonce(nonce, serverTime) ==
    [type |-> "pong", nonce |-> "", serverTime |-> serverTime]

Pong(nonce, serverTime) == [type |-> "pong", nonce |-> nonce, serverTime |-> serverTime]

\* broadcast that forgets the exclusion
RECURSIVE broadcastToAll(_, _, _)
broadcastToAll(conns, excludePlayerId, message) ==
    IF conns = <<>> THEN <<>>
    ELSE send(Head(conns).webSocket, message)
         \o broadcastToAll(Tail(conns), excludePlayerId, message)

\* broadcast whose sends are not guarded: the first that throws ends it
RECURSIVE broadcastStopsAtFailure(_, _, _)
broadcastStopsAtFailure(conns, excludePlayerId, message) ==
    IF conns = <<>> THEN <<>>
    ELSE IF excludePlayerId # NoPlayer /\ Head(conns).playerId = excludePlayerId
         THEN broadcastStopsAtFailure(Tail(conns), excludePlayerId, message)
         ELSE IF Head(conns).webSocket \in failing
              THEN <<SendEv(Head(conns).webSocket, message), RaiseEv>>
              ELSE <<SendEv(Head(conns).webSocket, message)>>
                   \o broadcastStopsAtFailure(Tail(conns), excludePlayerId, message)

\* broadcast(excludePlayerId, message): the sends it makes, in Map order
RECURSIVE broadcast(_, _, _)
broadcast(conns, excludePlayerId, message) ==
    IF conns = <<>> THEN <<>>
    ELSE IF excludePlayerId # NoPlayer /\ Head(conns).playerId = excludePlayerId
         THEN broadcast(Tail(conns), excludePlayerId, message)
         ELSE send(Head(conns).webSocket, message)
              \o broadcast(Tail(conns), excludePlayerId, message)

---------------------------------------------------------------------------
(* the clients: what each keeps of the frames sent to it *)

\* the elements of a peers array
PeerSet(peers) == {peers[i] : i \in 1 .. Len(peers)}

\* the peer list after the client handled the frames `events` addressed to it
RECURSIVE Received(_, _)
Received(peers, events) ==
    IF events = <<>> THEN peers
    ELSE LET e == Head(events)
         IN  IF e.ev # "send" \/ e.threw
             THEN Received(peers, Tail(events))
             ELSE IF e.msg.type = "welcome"
             THEN Received(PeerSet(e.msg.peers), Tail(events))
             ELSE IF e.msg.type = "peer_joined"
             THEN Received(peers \cup {e.msg.peerId}, Tail(events))
             ELSE IF e.msg.type = "peer_left"
             THEN Received(peers \ {e.msg.peerId}, Tail(events))
             ELSE Received(peers, Tail(events))

\* every client handles what the handler sent to it
ClientsObserve ==
    clientPeers' =
        [ws \in Sockets |->
            IF sockets'[ws] = "gone" THEN {}
            ELSE Received(clientPeers[ws],
                          SelectSeq(out', LAMBDA e : e.ev # "raise" /\ e.to = ws))]

---------------------------------------------------------------------------
(* room.ts: constructor *)

\* state.getWebSockets(): a handle the room closed stays among them until
\* the host delivers its close callback
getWebSockets == {ws \in Sockets : sockets[ws] = "open"}

\* the forEach of the constructor without wsToPlayer.set
RECURSIVE RestoreWithoutReverseMap(_, _)
RestoreWithoutReverseMap(ws, maps) ==
    IF ws > MaxHandles THEN maps
    ELSE IF ws \notin getWebSockets \/ attachment[ws] = NoPlayer
         THEN RestoreWithoutReverseMap(ws + 1, maps)
         ELSE RestoreWithoutReverseMap(ws + 1,
                [connections |-> MapSet(maps.connections, attachment[ws],
                                        NewConn(attachment[ws], ws)),
                 wsToPlayer |-> maps.wsToPlayer])

\* the forEach of the constructor over the handles from `ws` on
RECURSIVE Restore(_, _)
Restore(ws, maps) ==
    IF ws > MaxHandles THEN maps
    ELSE IF ws \notin getWebSockets \/ attachment[ws] = NoPlayer
         THEN Restore(ws + 1, maps)
         ELSE Restore(ws + 1,
                [connections |-> MapSet(maps.connections, attachment[ws],
                                        NewConn(attachment[ws], ws)),
                 wsToPlayer |-> [maps.wsToPlayer EXCEPT ![ws] = attachment[ws]]])

EmptyMaps == [connections |-> <<>>, wsToPlayer |-> [ws \in Sockets |-> NoPlayer]]

\* The host evicts the object and constructs it again.
Constructor ==
    /\ connections' = Restore(1, EmptyMaps).connections
    /\ wsToPlayer' = Restore(1, EmptyMaps).wsToPlayer
    /\ last' = [op |-> "constructor"]
    /\ out' = <<>>
    /\ response' = 0
    /\ UNCHANGED <<env, failing, sockets, attachment, issued, now>>
    /\ UNCHANGED rlVars
    /\ ClientsObserve

---------------------------------------------------------------------------
(* room.ts: fetch *)

\* crypto.randomUUID(): an identifier never returned before.  The room only
\* compares identifiers and uses them as keys, so they are named in the
\* order they are issued.
\* an identifier source that may return one it returned before
makePlayerIdMayRepeat == PlayerIds

makePlayerId ==
    {playerId \in PlayerIds \ issued : \A other \in PlayerIds \ issued : playerId <= other}

\* new WebSocketPair(): the next handle
NewSocket == {ws \in Sockets : sockets[ws] = "new" /\ \A w \in 1 .. ws - 1 : sockets[w] # "new"}

\* the peers gathered before the insertion
Peers(conns) == [i \in 1 .. Len(conns) |-> conns[i].playerId]

Refuse(status) ==
    /\ response' = status
    /\ out' = <<>>
    /\ UNCHANGED <<env, failing, connections, wsToPlayer, sockets, attachment, issued, now>>

\* fetch gathering the peers after the insertion
AdmitPeersAfterInsert(server, playerId) ==
    /\ sockets' = [sockets EXCEPT ![server] = "open"]
    /\ issued' = issued \cup {playerId}
    /\ attachment' = [attachment EXCEPT ![server] = playerId]
    /\ connections' = MapSet(connections, playerId, NewConn(playerId, server))
    /\ wsToPlayer' = [wsToPlayer EXCEPT ![server] = playerId]
    /\ out' = send(server, Welcome(playerId, Peers(connections')))
              \o broadcast(connections', playerId, PeerJoined(playerId))
    /\ response' = 101
    /\ UNCHANGED <<env, failing, now>>

\* the capacity check left out
RoomIsFullNever == FALSE

\* the capacity check off by one: > for >=
RoomIsFullOneTooMany == Len(connections) > maxPlayersPerRoom

\* the capacity check
RoomIsFull == Len(connections) >= maxPlayersPerRoom

\* the admission announcing the newcomer to itself as well
AdmitNotifiesAll(server, playerId) ==
    /\ sockets' = [sockets EXCEPT ![server] = "open"]
    /\ issued' = issued \cup {playerId}
    /\ attachment' = [attachment EXCEPT ![server] = playerId]
    /\ connections' = MapSet(connections, playerId, NewConn(playerId, server))
    /\ wsToPlayer' = [wsToPlayer EXCEPT ![server] = playerId]
    /\ out' = send(server, Welcome(playerId, Peers(connections)))
              \o broadcast(connections', NoPlayer, PeerJoined(playerId))
    /\ response' = 101
    /\ UNCHANGED <<env, failing, now>>

\* the admission: accept, identify, register, welcome, notify
Admit(server, playerId) ==
    /\ sockets' = [sockets EXCEPT ![server] = "open"]
    /\ issued' = issued \cup {playerId}
    /\ attachment' = [attachment EXCEPT ![server] = playerId]
    /\ connections' = MapSet(connections, playerId, NewConn(playerId, server))
    /\ wsToPlayer' = [wsToPlayer EXCEPT ![server] = playerId]
    /\ out' = send(server, Welcome(playerId, Peers(connections)))
              \o broadcast(connections', playerId, PeerJoined(playerId))
    /\ response' = 101
    /\ UNCHANGED <<env, failing, now>>

\* fetch checking the capacity before the origin
FetchCapacityFirst(upgradeHeader, origin) ==
    /\ UNCHANGED rlVars
    /\ IF upgradeHeader = NoHeader \/ toLowerCase(upgradeHeader) # "websocket"
       THEN /\ Refuse(426)
            /\ last' = [op |-> "fetch", upgrade |-> upgradeHeader, origin |-> origin]
       ELSE IF RoomIsFull
       THEN /\ Refuse(503)
            /\ last' = [op |-> "fetch", upgrade |-> upgradeHeader, origin |-> origin]
       ELSE IF Truthy(origin) /\ origin \notin allowedOrigins
       THEN /\ Refuse(403)
            /\ last' = [op |-> "fetch", upgrade |-> upgradeHeader, origin |-> origin]
       ELSE \E server \in NewSocket, playerId \in makePlayerId :
               /\ Admit(server, playerId)
               /\ last' = [op |-> "fetch", upgrade |-> upgradeHeader, origin |-> origin,
                           ws |-> server, playerId |-> playerId]
    /\ ClientsObserve

\* fetch(request)
Fetch(upgradeHeader, origin) ==
    /\ UNCHANGED rlVars
    /\ IF upgradeHeader = NoHeader \/ toLowerCase(upgradeHeader) # "websocket"
       THEN /\ Refuse(426)
            /\ last' = [op |-> "fetch", upgrade |-> upgradeHeader, origin |-> origin]
       ELSE IF Truthy(origin) /\ origin \notin allowedOrigins
       THEN /\ Refuse(403)
            /\ last' = [op |-> "fetch", upgrade |-> upgradeHeader, origin |-> origin]
       ELSE IF RoomIsFull
       THEN /\ Refuse(503)
            /\ last' = [op |-> "fetch", upgrade |-> upgradeHeader, origin |-> origin]
       ELSE \E server \in NewSocket, playerId \in makePlayerId :
               /\ Admit(server, playerId)
               /\ last' = [op |-> "fetch", upgrade |-> upgradeHeader, origin |-> origin,
                           ws |-> server, playerId |-> playerId]
    /\ ClientsObserve

---------------------------------------------------------------------------
(* room.ts: webSocketMessage *)

\* the frame is dropped without a trace
\* an unknown handle answered with an error frame
DropWithError ==
    /\ out' = <<SendEv(last'.ws, error(INVALID_MESSAGE, "Unknown connection"))>>
    /\ UNCHANGED <<connections, sockets>>

\* if (!playerId) return; if (!conn) return
Drop ==
    /\ out' = <<>>
    /\ UNCHANGED <<connections, sockets>>

\* the answer to a frame the limiter rejects, forgotten
RateLimitedReplyForgotten(ws) == <<>>

\* the answer to a frame the limiter rejects
RateLimitedReply(ws) == send(ws, error(RATE_LIMITED, "Rate limited"))

\* the answer to a hello of another version, without the close
BadProtocolReplyWithoutClose(ws, clientVersion) ==
    send(ws, error(BAD_PROTOCOL,
                   <<"Protocol mismatch", PROTOCOL_VERSION, clientVersion>>))

\* the answer to a hello of another version: the error, then the close
BadProtocolReply(ws, clientVersion) ==
    send(ws, error(BAD_PROTOCOL,
                   <<"Protocol mismatch", PROTOCOL_VERSION, clientVersion>>))
    \o <<CloseEv(ws, 1008, "BAD_PROTOCOL")>>

\* the answer to a frame that is no object, with a close after it
InvalidReplyThenClose(ws) ==
    send(ws, error(INVALID_MESSAGE, "Invalid message format"))
    \o <<CloseEv(ws, 1008, "INVALID_MESSAGE")>>

\* the answer to a frame that does not decode to an object
InvalidReply(ws) == send(ws, error(INVALID_MESSAGE, "Invalid message format"))

\* the handler relaying a hello it has no objection to
DispatchRelaysHello(ws, playerId, decoded) ==
    IF ~isObject(decoded) \/ IsArray(decoded)
    THEN /\ out' = InvalidReply(ws)
         /\ UNCHANGED sockets
    ELSE IF decoded.type = Str("hello")
            /\ decoded.protocolVersion.t = "number"
            /\ decoded.protocolVersion.n # PROTOCOL_VERSION
    THEN /\ out' = BadProtocolReply(ws, decoded.protocolVersion.n)
         /\ UNCHANGED sockets
    ELSE IF decoded.type = Str("ping") /\ decoded.nonce.t = "string"
    THEN /\ out' = send(ws, Pong(decoded.nonce.s, now))
         /\ UNCHANGED sockets
    ELSE /\ out' = broadcast(connections', playerId, Relay(playerId, decoded))
         /\ UNCHANGED sockets

\* the handler after the rate limiter let the frame through
Dispatch(ws, playerId, decoded) ==
    IF ~isObject(decoded) \/ IsArray(decoded)
    THEN /\ out' = InvalidReply(ws)
         /\ UNCHANGED sockets
    ELSE IF decoded.type = Str("hello")
    THEN IF decoded.protocolVersion.t = "number"
            /\ decoded.protocolVersion.n # PROTOCOL_VERSION
         THEN /\ out' = BadProtocolReply(ws, decoded.protocolVersion.n)
              /\ UNCHANGED sockets
         ELSE /\ out' = <<>>
              /\ UNCHANGED sockets
    ELSE IF decoded.type = Str("ping") /\ decoded.nonce.t = "string"
    THEN /\ out' = send(ws, Pong(decoded.nonce.s, now))
         /\ UNCHANGED sockets
    ELSE /\ out' = broadcast(connections', playerId, Relay(playerId, decoded))
         /\ UNCHANGED sockets

WebSocketMessage(ws, message) ==
    /\ sockets[ws] # "new"
    /\ last' = [op |-> "message", ws |-> ws, message |-> message]
    /\ response' = 0
    /\ UNCHANGED <<env, failing, wsToPlayer, attachment, issued, now>>
    /\ UNCHANGED rlVars
    /\ LET playerId == wsToPlayer[ws]
           conn == MapGet(connections, playerId)
           verdict == allow(conn.rateLimiter, now)
       IN  IF playerId = NoPlayer THEN Drop
           ELSE IF conn = NoConn THEN Drop
           ELSE /\ connections' = MapSet(connections, playerId,
                                   [conn EXCEPT !.rateLimiter = verdict.rl])
                /\ IF ~verdict.ok
                   THEN /\ out' = RateLimitedReply(ws)
                        /\ UNCHANGED sockets
                   ELSE Dispatch(ws, playerId, decodeMessage(message))
    /\ ClientsObserve

---------------------------------------------------------------------------
(* room.ts: webSocketClose, webSocketError, handleDisconnect *)

\* handleDisconnect that leaves the handle in wsToPlayer
handleDisconnectKeepsHandle(ws) ==
    LET playerId == wsToPlayer[ws]
    IN  IF playerId = NoPlayer
        THEN /\ out' = <<>>
             /\ UNCHANGED <<connections, wsToPlayer>>
        ELSE /\ connections' = MapDelete(connections, playerId)
             /\ UNCHANGED wsToPlayer
             /\ out' = broadcast(connections', NoPlayer, PeerLeft(playerId))

\* handleDisconnect without its early return
handleDisconnectUnguarded(ws) ==
    LET playerId == wsToPlayer[ws]
    IN  /\ connections' = MapDelete(connections, playerId)
        /\ wsToPlayer' = [wsToPlayer EXCEPT ![ws] = NoPlayer]
        /\ out' = broadcast(connections', NoPlayer, PeerLeft(playerId))

\* handleDisconnect that notifies before it removes
handleDisconnectNotifiesFirst(ws) ==
    LET playerId == wsToPlayer[ws]
    IN  IF playerId = NoPlayer
        THEN /\ out' = <<>>
             /\ UNCHANGED <<connections, wsToPlayer>>
        ELSE /\ connections' = MapDelete(connections, playerId)
             /\ wsToPlayer' = [wsToPlayer EXCEPT ![ws] = NoPlayer]
             /\ out' = broadcast(connections, NoPlayer, PeerLeft(playerId))

\* handleDisconnect that tells nobody
handleDisconnectSilent(ws) ==
    LET playerId == wsToPlayer[ws]
    IN  IF playerId = NoPlayer
        THEN /\ out' = <<>>
             /\ UNCHANGED <<connections, wsToPlayer>>
        ELSE /\ connections' = MapDelete(connections, playerId)
             /\ wsToPlayer' = [wsToPlayer EXCEPT ![ws] = NoPlayer]
             /\ out' = <<>>

\* handleDisconnect(ws)
handleDisconnect(ws) ==
    LET playerId == wsToPlayer[ws]
    IN  IF playerId = NoPlayer
        THEN /\ out' = <<>>
             /\ UNCHANGED <<connections, wsToPlayer>>
        ELSE /\ connections' = MapDelete(connections, playerId)
             /\ wsToPlayer' = [wsToPlayer EXCEPT ![ws] = NoPlayer]
             /\ out' = broadcast(connections', NoPlayer, PeerLeft(playerId))

\* the host reports the handle closed, and forgets it
WebSocketClose(ws) ==
    /\ sockets[ws] # "new"
    /\ handleDisconnect(ws)
    /\ sockets' = [sockets EXCEPT ![ws] = "gone"]
    /\ last' = [op |-> "close", ws |-> ws]
    /\ response' = 0
    /\ UNCHANGED <<env, failing, attachment, issued, now>>
    /\ UNCHANGED rlVars
    /\ ClientsObserve

\* the host reports the handle failed, and forgets it
WebSocketError(ws) ==
    /\ sockets[ws] # "new"
    /\ handleDisconnect(ws)
    /\ sockets' = [sockets EXCEPT ![ws] = "gone"]
    /\ last' = [op |-> "error", ws |-> ws]
    /\ response' = 0
    /\ UNCHANGED <<env, failing, attachment, issued, now>>
    /\ UNCHANGED rlVars
    /\ ClientsObserve

---------------------------------------------------------------------------
(* the clock *)

\* the room's clock advances by just over one window at a time
TickMs == windowMs + 1

\* Date.now() advances between two handlers
Tick ==
    /\ now + TickMs <= MaxTicks * TickMs
    /\ now' = now + TickMs
    /\ last' = [op |-> "tick"]
    /\ out' = <<>>
    /\ response' = 0
    /\ UNCHANGED <<env, failing, connections, wsToPlayer, sockets, attachment, issued>>
    /\ UNCHANGED rlVars
    /\ ClientsObserve

---------------------------------------------------------------------------
(* the room *)

\* no limiter is exercised on its own
RlIdle ==
    /\ limiter = NewRateLimiter(1)
    /\ rlNow = 0
    /\ rlCalls = <<>>

Init ==
    /\ env \in Envs
    /\ connections = <<>>
    /\ wsToPlayer = [ws \in Sockets |-> NoPlayer]
    /\ sockets = [ws \in Sockets |-> "new"]
    /\ attachment = [ws \in Sockets |-> NoPlayer]
    /\ issued = {}
    /\ now = 0
    /\ failing = {}
    /\ clientPeers = [ws \in Sockets |-> {}]
    /\ last = [op |-> "constructor"]
    /\ out = <<>>
    /\ response = 0
    /\ RlIdle

Next ==
    \/ \E upgradeHeader \in Upgrades, origin \in Origins : Fetch(upgradeHeader, origin)
    \/ \E ws \in Sockets, message \in Frames : WebSocketMessage(ws, message)
    \/ \E ws \in Sockets : WebSocketClose(ws)
    \/ \E ws \in Sockets : WebSocketError(ws)
    \/ Constructor
    \/ Tick

Spec == Init /\ [][Next]_vars

---------------------------------------------------------------------------
(* The room with sends that can fail: from some moment on, ws.send on a    *)
(* handle throws (the peer is gone and the host has not yet delivered the  *)
(* close callback).  One configuration, one relayed frame.                 *)

SendStartsThrowing(ws) ==
    /\ sockets[ws] = "open"
    /\ ws \notin failing
    /\ failing' = failing \cup {ws}
    /\ last' = [op |-> "break", ws |-> ws]
    /\ out' = <<>>
    /\ response' = 0
    /\ UNCHANGED <<env, connections, wsToPlayer, sockets, attachment, issued, now>>
    /\ UNCHANGED rlVars
    /\ ClientsObserve

InitSendFail ==
    /\ Init
    /\ env = [MAX_MESSAGES_PER_SECOND |-> 2, MAX_PLAYERS_PER_ROOM |-> 3]

NextSendFail ==
    \/ Fetch("WebSocket", NoHeader)
    \/ \E ws \in Sockets : WebSocketMessage(ws, Frame("ArrayBuffer", TRUE, Move))
    \/ \E ws \in Sockets : WebSocketClose(ws)
    \/ \E ws \in Sockets : SendStartsThrowing(ws)

SpecSendFail == InitSendFail /\ [][NextSendFail]_vars

---------------------------------------------------------------------------
(* One RateLimiter on its own: allow(now) called at times that never go    *)
(* back.  `rlCalls` is the history of the calls: the time passed and the   *)
(* value returned.                                                         *)

RlCapacities == {0, 2, 3}

RlSteps == {100, 701, 1000}

RoomIdle ==
    /\ env = [MAX_MESSAGES_PER_SECOND |-> 0, MAX_PLAYERS_PER_ROOM |-> 0]
    /\ connections = <<>>
    /\ wsToPlayer = [ws \in Sockets |-> NoPlayer]
    /\ sockets = [ws \in Sockets |-> "new"]
    /\ attachment = [ws \in Sockets |-> NoPlayer]
    /\ issued = {}
    /\ now = 0
    /\ failing = {}
    /\ clientPeers = [ws \in Sockets |-> {}]
    /\ last = [op |-> "constructor"]
    /\ out = <<>>
    /\ response = 0

InitRL ==
    /\ RoomIdle
    /\ limiter \in {NewRateLimiter(n) : n \in RlCapacities}
    /\ rlNow = 0
    /\ rlCalls = <<>>

RlAllow ==
    /\ Len(rlCalls) < MaxCalls
    /\ limiter' = allow(limiter, rlNow).rl
    /\ rlCalls' = Append(rlCalls, [t |-> rlNow, ok |-> allow(limiter, rlNow).ok])
    /\ UNCHANGED rlNow
    /\ UNCHANGED roomVars

RlAdvance(d) ==
    /\ rlNow + d <= MaxRlTime
    /\ rlNow' = rlNow + d
    /\ UNCHANGED <<limiter, rlCalls>>
    /\ UNCHANGED roomVars

NextRL ==
    \/ RlAllow
    \/ \E d \in RlSteps : RlAdvance(d)

SpecRL == InitRL /\ [][NextRL]_vars

---------------------------------------------------------------------------
(* What the claims speak of *)

\* the handle is registered: the room knows an identity for it
IsRegistered(ws) == wsToPlayer[ws] # NoPlayer

RegisteredSockets == {ws \in Sockets : IsRegistered(ws)}

\* the verdict the limiter of a registered handle gives at this instant
Passes(ws) == allow(MapGet(connections, wsToPlayer[ws]).rateLimiter, now).ok

\* the events of a handler's output that are sends to `ws`
SendsTo(events, ws) ==
    SelectSeq(events, LAMBDA e : e.ev = "send" /\ e.to = ws)

\* the sends of a given message type to `ws`
TypedSendsTo(events, ws, type) ==
    SelectSeq(events, LAMBDA e : e.ev = "send" /\ e.to = ws /\ e.msg.type = type)

Range(seq) == {seq[i] : i \in 1 .. Len(seq)}

\* who is registered under which identity, without the limiters
Membership(conns) ==
    [i \in 1 .. Len(conns) |-> <<conns[i].playerId, conns[i].webSocket>>]

\* a decoded value the room relays
IsRelayed(decoded) ==
    /\ decoded.kind = "object"
    /\ decoded.type # Str("hello")
    /\ ~(decoded.type = Str("ping") /\ decoded.nonce.t = "string")

\* the step is webSocketMessage on a registered handle
MessageStep == last'.op = "message" /\ IsRegistered(last'.ws)

\* C1: a frame of a registered connection A that passes the limiter and
\* decodes to an object that is neither a hello nor a ping with a string
\* nonce is relayed, {from: A's identity, data: the payload unchanged},
\* exactly once to every other connection registered at that moment, and
\* not to A.
C1_RelayToOthers ==
    [][(MessageStep /\ Passes(last'.ws) /\ IsRelayed(decodeMessage(last'.message)))
        => \A ws \in RegisteredSockets :
              TypedSendsTo(out', ws, "relay") =
                 IF ws = last'.ws THEN <<>>
                 ELSE <<SendEv(ws, [type |-> "relay",
                                    from |-> attachment[last'.ws],
                                    data |-> last'.message.value])>>]_vars

\* A in a room with B and C has sent {type: "move", x: 1}
C1_Witness ==
    /\ last.op = "message"
    /\ last.message.value = Move
    /\ Len(connections) = 3
    /\ Len(out) = 2
    /\ \A i \in 1 .. Len(out) :
          /\ out[i].msg.type = "relay"
          /\ out[i].to # last.ws
          /\ out[i].msg.data = Move

\* C2: the identities of wsToPlayer are the keys of connections, a handle
\* h maps to identity i exactly when the entry under i holds h, and a
\* connection whose disconnect was processed is in neither map.
C2_RegistryConsistent ==
    /\ {wsToPlayer[ws] : ws \in RegisteredSockets} = Keys(connections)
    /\ \A i, j \in 1 .. Len(connections) :
          connections[i].playerId = connections[j].playerId => i = j
    /\ \A ws \in Sockets, playerId \in PlayerIds :
          wsToPlayer[ws] = playerId
          <=> \E i \in 1 .. Len(connections) :
                 /\ connections[i].playerId = playerId
                 /\ connections[i].webSocket = ws
    /\ \A ws \in Sockets :
          sockets[ws] = "gone" =>
             /\ wsToPlayer[ws] = NoPlayer
             /\ \A i \in 1 .. Len(connections) : connections[i].webSocket # ws

\* the room was constructed again with two connections left after a third
\* one's disconnect
C2_Witness ==
    /\ last.op = "constructor"
    /\ Len(connections) = 2
    /\ \E ws \in Sockets : sockets[ws] = "gone"

\* C3: the welcome of a successful admission lists exactly the identities
\* registered before the new entry was inserted, never the new one.
C3_WelcomePeers ==
    [][response' = 101
        => /\ Len(TypedSendsTo(out', last'.ws, "welcome")) = 1
           /\ out'[1].ev = "send" /\ out'[1].to = last'.ws
           /\ out'[1].msg.type = "welcome"
           /\ out'[1].msg.playerId = last'.playerId
           /\ Range(out'[1].msg.peers) = Keys(connections)
           /\ Len(out'[1].msg.peers) = Cardinality(Keys(connections))
           /\ last'.playerId \notin Range(out'[1].msg.peers)]_vars

\* a third connection was admitted and welcomed with two peers
C3_Witness ==
    /\ response = 101
    /\ out[1].msg.type = "welcome"
    /\ Len(out[1].msg.peers) = 2

\* the request carries a WebSocket upgrade and an origin the room accepts
ReachesCapacityCheck(upgradeHeader, origin) ==
    /\ upgradeHeader # NoHeader /\ toLowerCase(upgradeHeader) = "websocket"
    /\ ~(Truthy(origin) /\ origin \notin allowedOrigins)

C5_DisconnectIdempotent ==
    [][/\ (last'.op \in {"close", "error"} /\ IsRegistered(last'.ws))
          => /\ wsToPlayer'[last'.ws] = NoPlayer
             /\ wsToPlayer[last'.ws] \notin Keys(connections')
             /\ Len(out') = Len(connections')
             /\ \A i \in 1 .. Len(connections') :
                   SendsTo(out', connections'[i].webSocket) =
                      <<SendEv(connections'[i].webSocket,
                               [type |-> "peer_left", peerId |-> attachment[last'.ws]])>>
       /\ (last'.op \in {"close", "error"} /\ ~IsRegistered(last'.ws))
          => /\ connections' = connections
             /\ wsToPlayer' = wsToPlayer
             /\ out' = <<>>
       /\ \A i \in 1 .. Len(out') :
             (out'[i].ev = "send" /\ out'[i].msg.type = "peer_left")
             => /\ last'.op \in {"close", "error"}
                /\ out'[i].msg.peerId \in Keys(connections)
                /\ out'[i].msg.peerId \notin Keys(connections')
       /\ \A playerId \in issued :
             playerId \notin Keys(connections) => playerId \notin Keys(connections')]_vars

\* a callback came for a handle that was no longer registered, in a room
\* that still has connections
C5_Witness ==
    /\ last.op \in {"close", "error"}
    /\ Len(connections) >= 1
    /\ out = <<>>

\* C6: no send (and no close) is attempted on a handle whose disconnect
\* has been processed, its own peer_left included.
C6_NoSendToDeparted ==
    \A i \in 1 .. Len(out) : sockets[out[i].to] # "gone"

\* a relay was broadcast after another connection had left
C6_Witness ==
    /\ last.op = "message"
    /\ Len(out) >= 1
    /\ out[1].msg.type = "relay"
    /\ \E ws \in Sockets : sockets[ws] = "gone"

\* a hello whose protocolVersion is a number other than the server's
IsBadHello(decoded) ==
    /\ decoded.kind = "object"
    /\ decoded.type = Str("hello")
    /\ decoded.protocolVersion.t = "number"
    /\ decoded.protocolVersion.n # PROTOCOL_VERSION

\* C7: a hello with another protocol version than the server's, passing
\* the limiter, gets its sender one BAD_PROTOCOL error frame and then a
\* close with code 1008, and nobody else anything.
C7_BadProtocol ==
    [][(MessageStep /\ Passes(last'.ws) /\ IsBadHello(decodeMessage(last'.message)))
        => /\ Len(out') = 2
           /\ out'[1].ev = "send" /\ out'[1].to = last'.ws
           /\ out'[1].msg.type = "error" /\ out'[1].msg.code = "BAD_PROTOCOL"
           /\ out'[2].ev = "close" /\ out'[2].to = last'.ws
           /\ out'[2].code = 1008]_vars

\* a connection with two peers sent hello with version 2
C7_Witness ==
    /\ last.op = "message"
    /\ IsBadHello(last.message.value)
    /\ Len(connections) = 3
    /\ Len(out) = 2
    /\ out[2].ev = "close"

\* a ping with a string nonce
IsPing(decoded) ==
    /\ decoded.kind = "object"
    /\ decoded.type = Str("ping")
    /\ decoded.nonce.t = "string"

\* C8: a ping with a string nonce, passing the limiter, gets its sender
\* one pong with the same nonce and the server's time, and nobody else
\* anything.
C8_PingPong ==
    [][(MessageStep /\ Passes(last'.ws) /\ IsPing(decodeMessage(last'.message)))
        => out' = <<SendEv(last'.ws,
                           [type |-> "pong",
                            nonce |-> last'.message.value.nonce.s,
                            serverTime |-> now])>>]_vars

\* a connection with two peers was answered pong "abc" after the clock
\* advanced
C8_Witness ==
    /\ last.op = "message"
    /\ Len(connections) = 3
    /\ now > 0
    /\ out = <<SendEv(last.ws, [type |-> "pong", nonce |-> "abc", serverTime |-> now])>>

\* the accepted calls before call i whose time is not older than the
\* window before call i
RecentAccepted(i) ==
    {j \in 1 .. i - 1 : rlCalls[j].ok /\ rlCalls[j].t >= rlCalls[i].t - 1000}

\* the times of the accepted calls not older than the window before the
\* last call, in order
RECURSIVE Recorded(_)
Recorded(i) ==
    IF i = 0 THEN <<>>
    ELSE IF rlCalls[i].ok /\ rlCalls[i].t >= rlCalls[Len(rlCalls)].t - 1000
         THEN Append(Recorded(i - 1), rlCalls[i].t)
         ELSE Recorded(i - 1)

\* C9: allow(now) returns true exactly when fewer than capacity accepted
\* calls are not older than now - 1000 ms, and what the limiter retains is
\* the times of those calls, with now only when it returned true.
C9_SlidingWindow ==
    /\ \A i \in 1 .. Len(rlCalls) :
          rlCalls[i].ok <=> Cardinality(RecentAccepted(i)) < limiter.maxMessages
    /\ rlCalls # <<>> => limiter.timestamps = Recorded(Len(rlCalls))

\* capacity 3: calls at 0, 100, 200 accepted, at 300 rejected, at 1001
\* accepted
C9_Witness ==
    /\ limiter.maxMessages = 3
    /\ rlCalls = <<[t |-> 0, ok |-> TRUE], [t |-> 100, ok |-> TRUE],
                   [t |-> 200, ok |-> TRUE], [t |-> 300, ok |-> FALSE],
                   [t |-> 1001, ok |-> TRUE]>>

\* C10: every frame of a registered connection goes through its limiter
\* before anything else; a frame the limiter rejects gets its sender one
\* RATE_LIMITED error frame and nothing else happens: no other frame, no
\* close, the registry as it was.
C10_RateLimited ==
    [][/\ MessageStep
          => MapGet(connections', wsToPlayer[last'.ws]).rateLimiter.timestamps
             = IF Passes(last'.ws)
               THEN Append(Evict(MapGet(connections, wsToPlayer[last'.ws]).rateLimiter.timestamps,
                                 now - 1000), now)
               ELSE Evict(MapGet(connections, wsToPlayer[last'.ws]).rateLimiter.timestamps,
                          now - 1000)
       /\ (MessageStep /\ ~Passes(last'.ws))
          => /\ out' = <<SendEv(last'.ws, [type |-> "error", code |-> "RATE_LIMITED",
                                           message |-> "Rate limited"])>>
             /\ wsToPlayer' = wsToPlayer
             /\ Membership(connections') = Membership(connections)
             /\ sockets' = sockets]_vars

\* a relayable frame of a connection with a peer was rejected
C10_Witness ==
    /\ last.op = "message"
    /\ last.message.value = Move
    /\ Len(connections) >= 2
    /\ Len(out) = 1
    /\ out[1].msg.type = "error"
    /\ out[1].msg.code = "RATE_LIMITED"

\* a frame that does not decode, or decodes to something that is no
\* object, or to an array
IsInvalidFrame(message) ==
    \/ ~message.parses
    \/ message.value.kind # "object"

\* C11: a frame of a registered connection that passes the limiter and
\* does not decode, or decodes to a value that is no object or is an array,
\* gets its sender one INVALID_MESSAGE error frame; nobody else gets
\* anything, the connection is not closed and the registry stays as it was.
C11_InvalidMessage ==
    [][(MessageStep /\ Passes(last'.ws) /\ IsInvalidFrame(last'.message))
        => /\ out' = <<SendEv(last'.ws, [type |-> "error", code |-> "INVALID_MESSAGE",
                                         message |-> "Invalid message format"])>>
           /\ wsToPlayer' = wsToPlayer
           /\ Membership(connections') = Membership(connections)
           /\ sockets' = sockets]_vars

\* a connection with a peer sent an array and was answered INVALID_MESSAGE
C11_Witness ==
    /\ last.op = "message"
    /\ last.message.value = ArrayValue
    /\ Len(connections) >= 2
    /\ Len(out) = 1
    /\ out[1].to = last.ws
    /\ out[1].msg.type = "error"
    /\ out[1].msg.code = "INVALID_MESSAGE"

\* the request asks for a WebSocket upgrade
IsUpgrade(upgradeHeader) == upgradeHeader \in {"websocket", "WebSocket"}

\* C12: the origin is checked before the capacity: an upgrade request
\* whose origin is non-empty and not in the allow-list is refused with
\* "Origin not allowed" (403), in a full room too, with both maps as they
\* were and no frame sent; a request whose origin is absent or empty is
\* never refused for its origin.
C12_OriginFirst ==
    [][last'.op = "fetch"
        => /\ (/\ IsUpgrade(last'.upgrade)
               /\ last'.origin \notin {NoHeader, ""}
               /\ last'.origin \notin allowedOrigins)
              => /\ response' = 403
                 /\ connections' = connections
                 /\ wsToPlayer' = wsToPlayer
                 /\ out' = <<>>
           /\ last'.origin \in {NoHeader, ""} => response' # 403]_vars

\* a full room of two has refused a request for its origin
C12_Witness ==
    /\ last.op = "fetch"
    /\ last.origin = "http://evil.example"
    /\ response = 403
    /\ maxPlayersPerRoom = 2
    /\ Len(connections) = 2

C14_AdmissionSends ==
    [][response' = 101
        => /\ Len(SendsTo(out', last'.ws)) = 1
           /\ SendsTo(out', last'.ws)[1].msg.type = "welcome"
           /\ SendsTo(out', last'.ws)[1].msg.playerId = last'.playerId
           /\ SendsTo(out', last'.ws)[1].msg.protocolVersion = PROTOCOL_VERSION
           /\ wsToPlayer'[last'.ws] = last'.playerId
           /\ \A ws \in Sockets \ {last'.ws} :
                 SendsTo(out', ws) = IF IsRegistered(ws)
                                     THEN <<SendEv(ws, PeerJoined(last'.playerId))>>
                                     ELSE <<>>
           /\ \A i \in 1 .. Len(out') : out'[i].ev = "send"
           /\ Len(out') = Len(connections')
           /\ Len(TypedSendsTo(out', last'.ws, "peer_joined")) = 0
           /\ Cardinality({i \in 1 .. Len(out') : out'[i].msg.type = "peer_joined"})
                 = Len(connections') - 1]_vars

\* the third connection is admitted: one welcome, two peer_joined
C14_Witness ==
    /\ response = 101
    /\ Len(connections) = 3
    /\ Len(out) = 3
    /\ out[1].msg.type = "welcome"
    /\ out[2].msg.type = "peer_joined"
    /\ out[3].msg.type = "peer_joined"
    /\ out[2].to # out[3].to

\* the accepted calls up to call i that are not older than 1000 ms at call i
AcceptedInWindow(i) ==
    {j \in 1 .. i : rlCalls[j].ok /\ rlCalls[j].t >= rlCalls[i].t - 1000}

\* C15: for calls of allow at non-decreasing times, after every call the
\* limiter retains at most capacity timestamps, none of them older than
\* now - 1000 ms, and no more than capacity calls are accepted within any
\* trailing 1000 ms window.
C15_WindowBound ==
    rlCalls # <<>>
    => /\ Len(limiter.timestamps) <= limiter.maxMessages
       /\ \A k \in 1 .. Len(limiter.timestamps) :
             limiter.timestamps[k] >= rlCalls[Len(rlCalls)].t - 1000
       /\ \A i \in 1 .. Len(rlCalls) :
             Cardinality(AcceptedInWindow(i)) <= limiter.maxMessages

\* capacity 2: calls at 0 and 100 accepted, the call at 1000 rejected with
\* both still in the window, the call at 1100 accepted after 0 is evicted
C15_Witness ==
    /\ limiter.maxMessages = 2
    /\ rlCalls = <<[t |-> 0, ok |-> TRUE], [t |-> 100, ok |-> TRUE],
                   [t |-> 1000, ok |-> FALSE], [t |-> 1100, ok |-> TRUE]>>
    /\ limiter.timestamps = <<100, 1100>>

Pairs(conns) == Range(Membership(conns))

\* the handles admitted and not yet disconnected, each with the identity
\* its admission attached to it
LivePairs == {<<attachment[ws], ws>> : ws \in {h \in Sockets : sockets[h] = "open"}}

\* C17: a reconstruction after an eviction rebuilds exactly the pairs of
\* handle and identity of the connections admitted and not yet
\* disconnected, the identity being the one attached at admission; the two
\* maps agree, and every rebuilt limiter has an empty window.
C17_Reconstruction ==
    [][last'.op = "constructor"
        => /\ Pairs(connections') = LivePairs
           /\ Pairs(connections') = Pairs(connections)
           /\ Len(connections') = Cardinality(LivePairs)
           /\ \A ws \in Sockets :
                 wsToPlayer'[ws] = IF sockets[ws] = "open" THEN attachment[ws]
                                                          ELSE NoPlayer
           /\ \A i \in 1 .. Len(connections') :
                 /\ wsToPlayer'[connections'[i].webSocket] = connections'[i].playerId
                 /\ connections'[i].rateLimiter = NewRateLimiter(maxMessagesPerSecond)
                 /\ connections'[i].rateLimiter.timestamps = <<>>]_vars

\* the room is reconstructed with the second and third connections, the
\* first having left
C17_Witness ==
    /\ last.op = "constructor"
    /\ sockets[1] = "gone"
    /\ Membership(connections) = <<<<102, 2>>, <<103, 3>>>>
    /\ wsToPlayer = [ws \in Sockets |-> IF ws = 1 THEN NoPlayer ELSE 100 + ws]

\* C18: a frame that arrives on a handle that is not registered, such as
\* one delivered after the handle's disconnect, is dropped: nothing is
\* sent to anyone, and the registry and every limiter stay as they were.
C18_UnknownHandleDropped ==
    [][(last'.op = "message" /\ ~IsRegistered(last'.ws))
        => /\ out' = <<>>
           /\ connections' = connections
           /\ wsToPlayer' = wsToPlayer
           /\ sockets' = sockets]_vars

\* a relayable frame arrived on a handle whose disconnect was processed,
\* with two connections still registered
C18_Witness ==
    /\ last.op = "message"
    /\ last.message.value = Move
    /\ sockets[last.ws] = "gone"
    /\ ~IsRegistered(last.ws)
    /\ Len(connections) = 2
    /\ out = <<>>

\* the frame decodes to a hello
IsHello(message) ==
    /\ message.parses
    /\ message.value.kind = "object"
    /\ message.value.type = Str("hello")

\* a hello whose version is the server's, is absent or is not a number
IsAcceptedHello(message) ==
    /\ IsHello(message)
    /\ ~IsBadHello(message.value)

NoRelayIn(events) ==
    \A i \in 1 .. Len(events) : events[i].ev = "send" => events[i].msg.type # "relay"

\* C19 as stated: a hello of a registered connection is never relayed, and
\* one whose version is the server's, absent or no number has no frame sent
\* to anyone, no close, and the registry as it was -- whether or not the
\* limiter lets it through.
C19_AsStated ==
    [][(MessageStep /\ IsHello(last'.message))
        => /\ NoRelayIn(out')
           /\ IsAcceptedHello(last'.message)
              => /\ out' = <<>>
                 /\ wsToPlayer' = wsToPlayer
                 /\ Membership(connections') = Membership(connections)
                 /\ sockets' = sockets]_vars

\* C19: a hello of a registered connection is never relayed; one that
\* passes the limiter and whose version is the server's, absent or no number
\* has no frame sent to anyone, no close, and the registry as it was; one
\* the limiter rejects gets its sender the RATE_LIMITED error frame.
C19_HelloConsumed ==
    [][(MessageStep /\ IsHello(last'.message))
        => /\ NoRelayIn(out')
           /\ wsToPlayer' = wsToPlayer
           /\ Membership(connections') = Membership(connections)
           /\ sockets' = sockets
           /\ (IsAcceptedHello(last'.message) /\ Passes(last'.ws)) => out' = <<>>
           /\ ~Passes(last'.ws) => out' = RateLimitedReply(last'.ws)]_vars

\* a hello without a version arrived from one of three connections and
\* nothing was sent
C19_Witness ==
    /\ last.op = "message"
    /\ last.message.value = Hello(Undefined)
    /\ IsRegistered(last.ws)
    /\ Len(connections) = 3
    /\ out = <<>>

\* the message type of the broadcast the step makes, "none" when it makes
\* none: peer_joined at an admission, peer_left at the disconnect of a
\* registered handle, relay at a relayed frame
BroadcastType ==
    IF response' = 101 THEN "peer_joined"
    ELSE IF last'.op \in {"close", "error"} /\ IsRegistered(last'.ws) THEN "peer_left"
    ELSE IF /\ MessageStep
            /\ Passes(last'.ws)
            /\ IsRelayed(decodeMessage(last'.message))
         THEN "relay"
         ELSE "none"

\* C16: in every broadcast, a send that throws neither ends the broadcast
\* nor leaves it as an exception: every registered connection but the
\* excluded one has the send attempted on it, once, and a connection whose
\* send threw stays registered.
C16_BroadcastSurvivesFailure ==
    [][BroadcastType # "none"
        => /\ \A i \in 1 .. Len(out') : out'[i].ev # "raise"
           /\ \A ws \in Sockets \ {last'.ws} :
                 Len(TypedSendsTo(out', ws, BroadcastType))
                    = IF wsToPlayer'[ws] # NoPlayer THEN 1 ELSE 0
           /\ \A i \in 1 .. Len(out') :
                 (out'[i].ev = "send" /\ out'[i].threw)
                 => /\ wsToPlayer'[out'[i].to] = wsToPlayer[out'[i].to]
                    /\ wsToPlayer'[out'[i].to] # NoPlayer
                    /\ MapGet(connections', wsToPlayer[out'[i].to])
                          = MapGet(connections, wsToPlayer[out'[i].to])]_vars

\* a relay was sent to two connections: the send to the first threw, the
\* send to the second was made all the same
C16_Witness ==
    /\ last.op = "message"
    /\ Len(out) = 2
    /\ out[1].msg.type = "relay"
    /\ out[1].threw
    /\ out[2].msg.type = "relay"
    /\ ~out[2].threw
    /\ out[1].to # out[2].to
    /\ IsRegistered(out[1].to)

\* C21: identities being fresh and no send failing, the peer list a client
\* keeps from the frames sent to its connection -- the peers of its welcome,
\* plus every peer_joined, minus every peer_left -- is, after every
\* admission and every disconnect, the identities registered in the room
\* other than its own.
C21_ClientPeersMatchRegistry ==
    failing = {}
    => \A ws \in RegisteredSockets :
          clientPeers[ws] = Keys(connections) \ {wsToPlayer[ws]}

\* after three admissions and the disconnect of the first connection, the
\* second client's list is the third identity and the third client's the
\* second
C21_Witness ==
    /\ last.op \in {"close", "error"}
    /\ sockets[1] = "gone"
    /\ RegisteredSockets = {2, 3}
    /\ clientPeers[2] = {103}
    /\ clientPeers[3] = {102}

====
